---- MODULE Spec2Model ----
(***************************************************************************)
(* CalendarBuddy (src/calendarbuddy.py): the sync engine process_and_sync  *)
(* over the SQLite tables `events` and `changes`.                          *)
(*                                                                         *)
(* A table is the sequence of its rows in rowid order, which is the order  *)
(* SQLite's full scan (SELECT without ORDER BY) returns them in and hence  *)
(* the iteration order of the dict load_db_map builds.  The connection     *)
(* runs in sqlite3's default mode: a write opens a transaction that only   *)
(* conn.commit() makes durable, so a run is one step from committed tables *)
(* to committed tables; the states the connection passes through inside    *)
(* the run are kept in the history variable trace.                         *)
(* datetime.now() is a logical clock that ticks once per run.              *)
(* sha1 is taken to be collision free: an identity is the string hashed.   *)
(*                                                                         *)
(* Spec is main's sync and --print-changes runs.  UidSpec, ViewSpec and    *)
(* ParseSpec take uid_for, the two view queries and parse_events on their  *)
(* own, each over its own variables, the others standing still.            *)
(***************************************************************************)
EXTENDS Integers, Sequences, FiniteSets, TLC

\* ---------------------------------------------------------------- bounds
\* last tick of the clock: the first run is at tick 1, every later run of
\* process_and_sync takes the next tick
MaxClock == 3

\* Python's None
None == "<None>"

\* candidate tuples (title, start_time_iso, end_time_iso, meeting_link) as
\* parse_events emits them: one occurrence seen without and with a link, the
\* same title on another day, and another title without a time span
Candidates ==
    { <<"Standup", "2025-10-21T09:00:00", "2025-10-21T09:15:00", None>>,
      <<"Standup", "2025-10-21T09:00:00", "2025-10-21T09:15:00", "https://zoom.us/j/1">>,
      <<"Standup", "2025-10-22T09:00:00", "2025-10-22T09:15:00", None>>,
      <<"Review", None, None, None>> }

\* candidate lists: empty, one candidate, or two (a repeat or a pair)
CandLists ==
    {<<>>} \cup {<<a>> : a \in Candidates} \cup {<<a, b>> : a, b \in Candidates}

\* what the first run (clock 1, full pass on the new database) was given
FirstLists ==
    { <<>>,
      << <<"Standup", "2025-10-21T09:00:00", "2025-10-21T09:15:00", "https://zoom.us/j/1">>,
         <<"Review", None, None, None>> >> }

\* ---------------------------------------------------------------- state
VARIABLES
    events,     \* committed table events, rows in rowid order
    changes,    \* committed table changes, rows in id order
    clock,      \* datetime.now()
    pc,         \* "idle": no run in progress; "ran": a run has ended, its process
                \* has not exited yet
    call,       \* arguments of that run of process_and_sync
    outcome,    \* how it ended: "none", "committed", "dry", "failed", "printed",
                \* "aborted" (sys.exit(1) at line 696), "crashed"
    trace,      \* the connection's view of both tables during that run:
                \* trace[1] at load_db_map, trace[i+1] after the i-th candidate,
                \* trace[Len(ev_list)+2] after the removal sweep
    rows,       \* what a --print-changes run has fetched
    prev,       \* {ev_list} of the run before that one if it was a committed full
                \* pass (no dry_run, no lookback_mode), else {}
    fetch,      \* what the icalBuddy subprocesses of that run did: <<the range
                \* call, the eventsToday call>>
    key,        \* uid_for: two (title, start, end) triples, <<>> when unused
    joined,     \* uid_for: the strings hashed for the two triples
    stored,     \* the view queries: table events, a timestamp
                \* "2025-10-DDThh:mm:00" kept as [day |-> DD, hh |-> hh, mm |-> mm]
    query,      \* the view queries: <<"date", d>> or <<"range", from, to>>
    answer,     \* the view queries: the rows fetched
    lines,      \* parse_events: its argument
    pos,        \* parse_events: the line the for loop is at; Len(lines) + 2
                \* when the function has returned
    cur_title,  \* parse_events: the locals of the same names
    cur_start,
    cur_end,
    buffer_lines,
    parsed      \* parse_events: the list events

vars == <<events, changes, clock, pc, call, outcome, trace, rows, prev, fetch, key, joined,
          stored, query, answer,
          lines, pos, cur_title, cur_start, cur_end, buffer_lines, parsed>>

\* the variables of main's sync and print runs
syncVars == <<events, changes, clock, pc, call, outcome, trace, rows, prev, fetch>>

\* the variables of the functions taken on their own
uidVars == <<key, joined>>
viewVars == <<stored, query, answer>>
parseVars == <<lines, pos, cur_title, cur_start, cur_end, buffer_lines, parsed>>
funVars == <<uidVars, viewVars, parseVars>>

\* no function is being looked at on its own
UidIdle == key = <<>> /\ joined = <<>>
ViewIdle == stored = <<>> /\ query = <<>> /\ answer = <<>>
ParseIdle ==
    /\ lines = <<>> /\ pos = 0 /\ cur_title = None /\ cur_start = None /\ cur_end = None
    /\ buffer_lines = <<>> /\ parsed = <<>>
FunIdle == UidIdle /\ ViewIdle /\ ParseIdle

\* ---------------------------------------------------------------- helpers
\* x or ""
OrEmpty(x) == IF x = None THEN "" ELSE x

\* uid_for: the string that is hashed
uid_for(title, start_time, end_time) ==
    OrEmpty(title) \o "||" \o OrEmpty(start_time) \o "||" \o OrEmpty(end_time)

Uids(tbl) == {tbl[k].uid : k \in DOMAIN tbl}

RowOf(tbl, uid) == tbl[CHOOSE k \in DOMAIN tbl : tbl[k].uid = uid]

ActiveUids(tbl) == {tbl[k].uid : k \in {j \in DOMAIN tbl : tbl[j].deleted = 0}}

\* load_db_map: dict uid -> row, in the order of the scan
load_db_map(tbl) == tbl

\* variant: the link is kept when the observed one is NULL
UpdateRefreshKeepsLink(tbl, ts, mlink, uid) ==
    [k \in DOMAIN tbl |->
        IF tbl[k].uid = uid
        THEN [tbl[k] EXCEPT !.last_seen = ts, !.deleted = 0,
                            !.meeting_link = IF mlink = None THEN @ ELSE mlink]
        ELSE tbl[k]]

\* variant: the refresh also stamps first_seen
UpdateRefreshStampsFirstSeen(tbl, ts, mlink, uid) ==
    [k \in DOMAIN tbl |->
        IF tbl[k].uid = uid
        THEN [tbl[k] EXCEPT !.first_seen = ts, !.last_seen = ts, !.deleted = 0,
                            !.meeting_link = mlink]
        ELSE tbl[k]]

\* UPDATE events SET last_seen=?, deleted=0, meeting_link=? WHERE uid=?
UpdateRefresh(tbl, ts, mlink, uid) ==
    [k \in DOMAIN tbl |->
        IF tbl[k].uid = uid
        THEN [tbl[k] EXCEPT !.last_seen = ts, !.deleted = 0, !.meeting_link = mlink]
        ELSE tbl[k]]

\* variant: the row is deleted instead of flagged
UpdateRetireDeletesRow(tbl, ts, uid) ==
    LET Other(r) == r.uid # uid
    IN  SelectSeq(tbl, Other)

\* UPDATE events SET deleted=1, last_seen=? WHERE uid=?
UpdateRetire(tbl, ts, uid) ==
    [k \in DOMAIN tbl |->
        IF tbl[k].uid = uid
        THEN [tbl[k] EXCEPT !.deleted = 1, !.last_seen = ts]
        ELSE tbl[k]]

\* INSERT OR REPLACE INTO events (...) VALUES (?, ?, ?, ?, ?, ?, 0, ?)
InsertOrReplace(tbl, uid, title, s_iso, e_iso, ts, mlink) ==
    LET Other(r) == r.uid # uid
    IN  Append(SelectSeq(tbl, Other),
               [uid |-> uid, title |-> title, start_time |-> s_iso, end_time |-> e_iso,
                first_seen |-> ts, last_seen |-> ts, meeting_link |-> mlink, deleted |-> 0])

\* variant: one row per uid, a later record takes the place of an earlier one
RecordChangeReplacing(chg, ts, action, uid, title, start_time, end_time, meeting_link) ==
    LET Other(r) == r.uid # uid
    IN  Append(SelectSeq(chg, Other),
               [ts |-> ts, action |-> action, uid |-> uid, title |-> title,
                start_time |-> start_time, end_time |-> end_time,
                meeting_link |-> meeting_link])

\* record_change: INSERT INTO changes
record_change(chg, ts, action, uid, title, start_time, end_time, meeting_link) ==
    Append(chg, [ts |-> ts, action |-> action, uid |-> uid, title |-> title,
                 start_time |-> start_time, end_time |-> end_time,
                 meeting_link |-> meeting_link])

\* the store as a pair
Store(ev, ch) == [events |-> ev, changes |-> ch]

\* lines 410-413: retire every row of olds (rows of the snapshot), in order
RECURSIVE RetireSuperseded(_, _, _)
RetireSuperseded(st, olds, ts) ==
    IF olds = <<>> THEN st
    ELSE LET old == Head(olds)
         IN  RetireSuperseded(
                 Store(UpdateRetire(st.events, ts, old.uid),
                       record_change(st.changes, ts, "updated-old-marked-deleted", old.uid,
                                     old.title, old.start_time, old.end_time,
                                     old.meeting_link)),
                 Tail(olds), ts)

\* variant: the deleted flag of the old rows is not looked at
ExistingSameTitleAnyState(map, title) ==
    LET Same(r) == r.title = title
    IN  SelectSeq(map, Same)

\* line 408: rows of the snapshot with the candidate's title and deleted = 0
ExistingSameTitle(map, title) ==
    LET Same(r) == r.title = title /\ r.deleted = 0
    IN  SelectSeq(map, Same)

\* variant: the "added" branch writes although dry_run is set
ProcessCandidateUnguardedAdd(st, map, cand, ts, dry) ==
    LET uid == uid_for(cand[1], cand[2], cand[3])
    IN  IF uid \in Uids(map)
        THEN IF dry THEN st
             ELSE Store(UpdateRefresh(st.events, ts, cand[4], uid), st.changes)
        ELSE IF ExistingSameTitle(map, cand[1]) # <<>>
        THEN IF dry THEN st
             ELSE LET retired == RetireSuperseded(st, ExistingSameTitle(map, cand[1]), ts)
                  IN  Store(InsertOrReplace(retired.events, uid, cand[1], cand[2], cand[3],
                                            ts, cand[4]),
                            record_change(retired.changes, ts, "added (updated)", uid,
                                          cand[1], cand[2], cand[3], cand[4]))
        ELSE Store(InsertOrReplace(st.events, uid, cand[1], cand[2], cand[3], ts, cand[4]),
                   record_change(st.changes, ts, "added", uid, cand[1], cand[2], cand[3],
                                 cand[4]))

\* lines 398-429: one iteration of the for loop
ProcessCandidate(st, map, cand, ts, dry) ==
    LET title == cand[1]
        s_iso == cand[2]
        e_iso == cand[3]
        mlink == cand[4]
        uid   == uid_for(title, s_iso, e_iso)
        existing_same_title == ExistingSameTitle(map, title)
    IN  IF uid \in Uids(map)
        THEN IF dry THEN st
             ELSE Store(UpdateRefresh(st.events, ts, mlink, uid), st.changes)
        ELSE IF existing_same_title # <<>>
        THEN LET retired == IF dry THEN st
                            ELSE RetireSuperseded(st, existing_same_title, ts)
             IN  IF dry THEN retired
                 ELSE Store(InsertOrReplace(retired.events, uid, title, s_iso, e_iso, ts,
                                            mlink),
                            record_change(retired.changes, ts, "added (updated)", uid,
                                          title, s_iso, e_iso, mlink))
        ELSE IF dry THEN st
             ELSE Store(InsertOrReplace(st.events, uid, title, s_iso, e_iso, ts, mlink),
                        record_change(st.changes, ts, "added", uid, title, s_iso, e_iso,
                                      mlink))

\* line 435: rows of the snapshot the sweep retires
Absent(map, seen) ==
    LET Gone(r) == r.deleted = 0 /\ r.uid \notin seen
    IN  SelectSeq(map, Gone)

\* lines 436-438 for the rows the sweep retires, in order
RECURSIVE RetireAbsent(_, _, _)
RetireAbsent(st, gone, ts) ==
    IF gone = <<>> THEN st
    ELSE LET row == Head(gone)
         IN  RetireAbsent(
                 Store(UpdateRetire(st.events, ts, row.uid),
                       record_change(st.changes, ts, "removed", row.uid, row.title,
                                     row.start_time, row.end_time, row.meeting_link)),
                 Tail(gone), ts)

\* variant: the lookback test is inverted
RemovalSweepInverted(st, map, seen, ts, dry, lookback) ==
    IF ~lookback \/ dry THEN st
    ELSE RetireAbsent(st, Absent(map, seen), ts)

\* lines 433-438
RemovalSweep(st, map, seen, ts, dry, lookback) ==
    IF lookback \/ dry THEN st
    ELSE RetireAbsent(st, Absent(map, seen), ts)

\* lines 399-400 over the whole list
CurrentUids(C) == {uid_for(C[i][1], C[i][2], C[i][3]) : i \in DOMAIN C}

\* the connection's view after each step of a run that is not interrupted:
\* element 1 at load_db_map, element i+1 after candidate i, the last element
\* after the sweep
RECURSIVE LoopTrace(_, _, _, _, _)
LoopTrace(tr, map, C, ts, dry) ==
    IF Len(tr) > Len(C) THEN tr
    ELSE LoopTrace(Append(tr, ProcessCandidate(tr[Len(tr)], map, C[Len(tr)], ts, dry)),
                   map, C, ts, dry)

FullTrace(st, C, ts, dry, lookback) ==
    LET map  == load_db_map(st.events)
        loop == LoopTrace(<<st>>, map, C, ts, dry)
    IN  Append(loop, RemovalSweep(loop[Len(loop)], map, CurrentUids(C), ts, dry, lookback))

\* ORDER BY ts: rows in ts order, rows of one ts in id order (the scan of
\* idx_changes_ts)
RECURSIVE OrderByTs(_)
OrderByTs(chg) ==
    IF chg = <<>> THEN <<>>
    ELSE LET least == CHOOSE k \in DOMAIN chg :
                          \A j \in DOMAIN chg :
                              chg[k].ts < chg[j].ts \/ (chg[k].ts = chg[j].ts /\ k <= j)
             Rest(j) == chg[IF j < least THEN j ELSE j + 1]
         IN  <<chg[least]>> \o OrderByTs([j \in 1..(Len(chg) - 1) |-> Rest(j)])

\* get_changes, lines 541-547; timestamps are clock values and since_ts = 0
\* stands for no --since
get_changes(chg, since_ts) ==
    LET Since(r) == r.ts >= since_ts
    IN  IF since_ts # 0 THEN OrderByTs(SelectSeq(chg, Since)) ELSE OrderByTs(chg)

\* conn.commit(), line 441
CommitTxn(committed, pending) == pending

\* variant: every statement is committed as it runs (autocommit)
RollbackKeepsWrites(committed, pending) == pending

\* what is left of an uncommitted transaction when the exception leaves main
\* and the connection goes away
Rollback(committed, pending) == committed

\* ---------------------------------------------------------------- actions
\* subprocess.run of the range command: "ok" (returncode 0 and output),
\* "unusable" (returncode # 0 or blank output), "timeout" (TimeoutExpired),
\* "notfound" (FileNotFoundError); of the eventsToday command, which runs only
\* after an unusable range call: "ok" (returncode 0), "rc_nonzero", "timeout",
\* "notfound"; "none": not run
NoFetch == <<"none", "none">>
Fetches ==
    {<<f, "none">> : f \in {"ok", "timeout", "notfound"}}
        \cup {<<"unusable", g>> : g \in {"ok", "rc_nonzero", "timeout", "notfound"}}

\* variant: a failing eventsToday call is not looked at
RunIcalbuddyIgnoresFallbackStatus(first, fallback) ==
    IF first \in {"timeout", "notfound"} THEN "SystemExit"
    ELSE IF first = "unusable" /\ fallback = "timeout" THEN "SystemExit"
    ELSE IF first = "unusable" /\ fallback = "notfound" THEN "FileNotFoundError"
    ELSE "lines"

\* run_icalbuddy: "lines" when it returns, else the exception it raises
run_icalbuddy(first, fallback) ==
    IF first \in {"timeout", "notfound"} THEN "SystemExit"
    ELSE IF first = "unusable"
    THEN IF fallback = "timeout" THEN "SystemExit"
         ELSE IF fallback = "notfound" THEN "FileNotFoundError"
         ELSE IF fallback = "rc_nonzero" THEN "SystemExit"
         ELSE "lines"
    ELSE "lines"

NoCall == [ev_list |-> <<>>, dry_run |-> FALSE, lookback_mode |-> FALSE, now |-> 0,
           fail_at |-> 0]

\* init_db on a new database, then a first full run
Init ==
    /\ \E C \in FirstLists :
          \E full \in {FullTrace(Store(<<>>, <<>>), C, 1, FALSE, FALSE)} :
              /\ events = full[Len(full)].events
              /\ changes = full[Len(full)].changes
              /\ prev = {C}
    /\ clock = 1
    /\ pc = "idle"
    /\ call = NoCall
    /\ outcome = "none"
    /\ trace = <<>>
    /\ rows = <<>>
    /\ fetch = NoFetch
    /\ FunIdle

\* main lines 691-701 with run_icalbuddy returning and process_and_sync
\* running to its end
Sync(C, dry, lookback) ==
    /\ pc = "idle"
    /\ clock < MaxClock
    /\ \E f \in Fetches : run_icalbuddy(f[1], f[2]) = "lines" /\ fetch' = f
    /\ \E full \in {FullTrace(Store(events, changes), C, clock + 1, dry, lookback)} :
          \E done \in {IF dry THEN Store(events, changes)
                       ELSE CommitTxn(Store(events, changes), full[Len(full)])} :
              /\ trace' = full
              /\ events' = done.events
              /\ changes' = done.changes
    /\ clock' = clock + 1
    /\ call' = [ev_list |-> C, dry_run |-> dry, lookback_mode |-> lookback,
                now |-> clock + 1, fail_at |-> 0]
    /\ outcome' = IF dry THEN "dry" ELSE "committed"
    /\ pc' = "ran"
    /\ UNCHANGED <<rows, prev>>
    /\ UNCHANGED funVars

\* a write raises: step k of the run (candidate k, the sweep at Len(C)+1,
\* conn.commit() at Len(C)+2) does not complete and the exception ends main
SyncFails(C, lookback, k) ==
    /\ pc = "idle"
    /\ clock < MaxClock
    /\ \E f \in Fetches : run_icalbuddy(f[1], f[2]) = "lines" /\ fetch' = f
    /\ k \in 1..(Len(C) + 2)
    /\ \E full \in {FullTrace(Store(events, changes), C, clock + 1, FALSE, lookback)} :
          \* the sweep can only raise if it has a row to write
          /\ k = Len(C) + 1 => full[k + 1] # full[k]
          /\ \E seen \in {SubSeq(full, 1, IF k > Len(full) THEN Len(full) ELSE k)} :
                \E left \in {Rollback(Store(events, changes), seen[Len(seen)])} :
                    /\ trace' = seen
                    /\ events' = left.events
                    /\ changes' = left.changes
    /\ clock' = clock + 1
    /\ call' = [ev_list |-> C, dry_run |-> FALSE, lookback_mode |-> lookback,
                now |-> clock + 1, fail_at |-> k]
    /\ outcome' = "failed"
    /\ pc' = "ran"
    /\ UNCHANGED <<rows, prev>>
    /\ UNCHANGED funVars

\* main lines 691-697: run_icalbuddy raises. SystemExit is caught and the run
\* ends with sys.exit(1); the FileNotFoundError of the eventsToday call is
\* caught nowhere and ends the process. parse_events and process_and_sync are
\* not reached
SourceUnavailable(f) ==
    /\ pc = "idle"
    /\ run_icalbuddy(f[1], f[2]) # "lines"
    /\ fetch' = f
    /\ outcome' = IF run_icalbuddy(f[1], f[2]) = "SystemExit" THEN "aborted" ELSE "crashed"
    /\ pc' = "ran"
    /\ UNCHANGED <<events, changes, clock, call, trace, rows, prev>>
    /\ UNCHANGED funVars

\* main lines 702-709 (or the uncaught exception): the process ends
Exit ==
    /\ pc = "ran"
    /\ pc' = "idle"
    /\ prev' = IF outcome = "committed" /\ ~call.lookback_mode THEN {call.ev_list} ELSE {}
    /\ call' = NoCall
    /\ outcome' = "none"
    /\ trace' = <<>>
    /\ rows' = <<>>
    /\ fetch' = NoFetch
    /\ UNCHANGED <<events, changes, clock>>
    /\ UNCHANGED funVars

\* main lines 671-689: --print-changes [--since ts]
PrintChanges(since_ts) ==
    /\ pc = "idle"
    /\ rows' = get_changes(changes, since_ts)
    /\ outcome' = "printed"
    /\ pc' = "ran"
    /\ UNCHANGED <<events, changes, clock, call, trace, prev, fetch>>
    /\ UNCHANGED funVars

Next ==
    \/ \E C \in CandLists, dry \in BOOLEAN, lookback \in BOOLEAN : Sync(C, dry, lookback)
    \/ \E C \in CandLists, lookback \in BOOLEAN, k \in 1..4 : SyncFails(C, lookback, k)
    \/ \E f \in Fetches : SourceUnavailable(f)
    \/ \E since_ts \in 0..MaxClock : PrintChanges(since_ts)
    \/ Exit

Spec == Init /\ [][Next]_vars

\* ------------------------------------------------------- uid_for on its own
\* titles as parse_events takes them from a title line (any text), start and
\* end as a caller of process_and_sync may pass them
UidTitles == {"A", "A||B", "A||"}
UidStarts == {None, "B", "2025-10-21T09:00:00"}
UidEnds == {None, "||", "2025-10-21T09:15:00"}
Triples == UidTitles \X UidStarts \X UidEnds

\* the store is not touched
SyncIdle ==
    /\ events = <<>> /\ changes = <<>> /\ clock = 0 /\ pc = "idle"
    /\ call = NoCall /\ outcome = "none" /\ trace = <<>> /\ rows = <<>>
    /\ prev = {} /\ fetch = NoFetch

UidInit ==
    /\ SyncIdle /\ ViewIdle /\ ParseIdle
    /\ key \in Triples \X Triples
    /\ joined = <<>>

\* lines 399-400 for two candidates
UidFor ==
    /\ joined = <<>>
    /\ joined' = <<uid_for(key[1][1], key[1][2], key[1][3]),
                   uid_for(key[2][1], key[2][2], key[2][3])>>
    /\ UNCHANGED <<syncVars, viewVars, parseVars, key>>

UidNext == UidFor

UidSpec == UidInit /\ [][UidNext]_vars

\* ------------------------------------------- the view queries on their own
\* days of October 2025 a query may name
Days == 19..23

\* no date: Python's None as a bound, SQL's NULL as a value of date()
NoDay == 0

Stamp(day, hh, mm) == [day |-> day, hh |-> hh, mm |-> mm]

\* no timestamp: NULL in the columns start_time and end_time
NoStamp == Stamp(NoDay, 0, 0)

\* events as a run stores them: a timed event, an all-day span over three
\* days (parse_events lines 255-256), an event without a time span, and an
\* event whose times went through the unchecked fallback of
\* parse_time_with_optional_am_pm (lines 188-191, "25:99 - 26:10")
ViewEvents ==
    << [title |-> "Standup", start_time |-> Stamp(21, 9, 0), end_time |-> Stamp(21, 9, 15),
        meeting_link |-> None],
       [title |-> "Offsite", start_time |-> Stamp(20, 0, 0), end_time |-> Stamp(22, 23, 59),
        meeting_link |-> None],
       [title |-> "Review", start_time |-> NoStamp, end_time |-> NoStamp,
        meeting_link |-> None],
       [title |-> "Late", start_time |-> Stamp(21, 25, 99), end_time |-> Stamp(21, 26, 10),
        meeting_link |-> None] >>

\* a table: each of these events not stored, active or retired
RECURSIVE TableOf(_, _)
TableOf(flags, k) ==
    IF k > Len(ViewEvents) THEN <<>>
    ELSE IF flags[k] = "absent" THEN TableOf(flags, k + 1)
    ELSE <<[title |-> ViewEvents[k].title, start_time |-> ViewEvents[k].start_time,
            end_time |-> ViewEvents[k].end_time,
            meeting_link |-> ViewEvents[k].meeting_link, deleted |-> IF flags[k] = "retired" THEN 1 ELSE 0]>>
             \o TableOf(flags, k + 1)

Tables == {TableOf(flags, 1) : flags \in [DOMAIN ViewEvents -> {"absent", "active", "retired"}]}

\* SQLite date(): NULL for NULL and for a text that is no valid time value
\* (hour above 24 or minute above 59), else the day
SqlDate(t) ==
    IF t = NoStamp THEN NoDay
    ELSE IF t.hh > 24 \/ t.mm > 59 THEN NoDay
    ELSE t.day

\* SQL <= and >=: a comparison with NULL is not true
SqlLe(a, b) == a # NoDay /\ b # NoDay /\ a <= b
SqlGe(a, b) == a # NoDay /\ b # NoDay /\ a >= b

\* ORDER BY start_time: NULL first, then the texts in ascending order
TextLe(a, b) ==
    \/ a = NoStamp
    \/ /\ b # NoStamp
       /\ \/ a.day < b.day
          \/ a.day = b.day /\ a.hh < b.hh
          \/ a.day = b.day /\ a.hh = b.hh /\ a.mm <= b.mm

Selected(r) == <<r.title, r.start_time, r.end_time, r.meeting_link>>

\* the rows at the positions hits of the table, in every order that ORDER BY
\* start_time allows
OrderByStart(tbl, hits) ==
    {[i \in 1..Cardinality(hits) |-> Selected(tbl[p[i]])] :
        p \in {q \in [1..Cardinality(hits) -> hits] :
                  /\ \A i, j \in DOMAIN q : i # j => q[i] # q[j]
                  /\ \A i, j \in DOMAIN q :
                        i < j => TextLe(tbl[q[i]].start_time, tbl[q[j]].start_time)}}

events_on_date_query(tbl, target_date) ==
    OrderByStart(tbl, {k \in DOMAIN tbl :
                         /\ tbl[k].deleted = 0
                         /\ SqlLe(SqlDate(tbl[k].start_time), target_date)
                         /\ SqlGe(SqlDate(tbl[k].end_time), target_date)})

events_in_range_query(tbl, from_date, to_date) ==
    IF from_date # NoDay /\ to_date # NoDay
    THEN OrderByStart(tbl, {k \in DOMAIN tbl :
                              /\ tbl[k].deleted = 0
                              /\ SqlLe(SqlDate(tbl[k].start_time), to_date)
                              /\ SqlGe(SqlDate(tbl[k].end_time), from_date)})
    ELSE IF from_date # NoDay
    THEN OrderByStart(tbl, {k \in DOMAIN tbl :
                              /\ tbl[k].deleted = 0
                              /\ SqlGe(SqlDate(tbl[k].end_time), from_date)})
    ELSE IF to_date # NoDay
    THEN OrderByStart(tbl, {k \in DOMAIN tbl :
                              /\ tbl[k].deleted = 0
                              /\ SqlLe(SqlDate(tbl[k].start_time), to_date)})
    ELSE OrderByStart(tbl, {k \in DOMAIN tbl : tbl[k].deleted = 0})

ViewInit ==
    /\ SyncIdle /\ UidIdle /\ ParseIdle
    /\ stored \in Tables
    /\ query = <<>>
    /\ answer = <<>>

\* main lines 651-652 and 656
ViewOnDate(d) ==
    /\ query = <<>>
    /\ query' = <<"date", d>>
    /\ answer' \in events_on_date_query(stored, d)
    /\ UNCHANGED <<syncVars, uidVars, parseVars, stored>>

\* main lines 653-654
ViewInRange(from_date, to_date) ==
    /\ query = <<>>
    /\ query' = <<"range", from_date, to_date>>
    /\ answer' \in events_in_range_query(stored, from_date, to_date)
    /\ UNCHANGED <<syncVars, uidVars, parseVars, stored>>

ViewNext ==
    \/ \E d \in Days : ViewOnDate(d)
    \/ \E from_date, to_date \in Days \cup {NoDay} : ViewInRange(from_date, to_date)

ViewSpec == ViewInit /\ [][ViewNext]_vars

\* ------------------------------------------------ parse_events on its own
\* most lines parse_events is given
MaxLines == 3

\* date.today().isoformat() on the day of the run
Today == "2025-10-23"

\* A line is kept as what the regular expressions find in it.  A date text is
\* its digit groups (style "iso": YYYY-MM-DD, style "dmy": D Mon YYYY with m
\* the number of the month the word names, 0 if it names none); a time text
\* is its hour and minute digits and what follows them.
Date(y, m, d, style) == [y |-> y, m |-> m, d |-> d, style |-> style]
Time(hh, mm, suffix) == [hh |-> hh, mm |-> mm, suffix |-> suffix]
NoDate == Date(0, 0, 0, "none")
NoTime == Time(0, 0, "none")

\* what URL_RE finds: text is the match without its trailing punctuation
\* trail, markers the entries of MEETING_DOMAINS_PRIORITY that occur in the
\* lower-cased text
Url(text, trail, markers) == [text |-> text, trail |-> trail, markers |-> markers]

Line(form, title, d1, d2, t1, t2, urls) ==
    [form |-> form, title |-> title, d1 |-> d1, d2 |-> d2, t1 |-> t1, t2 |-> t2,
     urls |-> urls]

BlankLine == Line("blank", "", NoDate, NoDate, NoTime, NoTime, <<>>)
\* "* title" or "• title (calendar@...)"
TitleLine(title) == Line("title", title, NoDate, NoDate, NoTime, NoTime, <<>>)
\* "15 Sep 2025 - 29 Sep 2025"
Range1Line(d1, d2) == Line("range1", "", d1, d2, NoTime, NoTime, <<>>)
\* "2025-09-15 - 2025-09-29"
Range2Line(d1, d2) == Line("range2", "", d1, d2, NoTime, NoTime, <<>>)
\* "2025-11-02 at 11:30 AM - 12:00 PM"
AtLine(d, t1, t2) == Line("at", "", d, NoDate, t1, t2, <<>>)
\* "2025-09-21 11:30 - 12:00" or, with d = NoDate, "11:30 AM - 12:00 PM"
TimeLine(d, t1, t2) == Line("time", "", d, NoDate, t1, t2, <<>>)
\* "2025-09-21"
DateLine(d) == Line("date", "", d, NoDate, NoTime, NoTime, <<>>)
\* any other text
NoteLine(urls) == Line("note", "", NoDate, NoDate, NoTime, NoTime, urls)

Zoom == Url("https://zoom.us/j/1", "", {"zoom.us"})
Meet == Url("https://meet.google.com/abc", ".", {"meet.google.com"})
Plain == Url("https://example.com/x", "", {})
Wiki == Url("https://wiki.example.com/webex.com-setup", ")", {"webex.com"})

LineSet ==
    { BlankLine,
      TitleLine("Standup"),
      TitleLine("Review"),
      Range1Line(Date(2025, 9, 15, "dmy"), Date(2025, 9, 29, "dmy")),
      Range2Line(Date(2025, 10, 20, "iso"), Date(2025, 10, 22, "iso")),
      Range2Line(Date(2025, 10, 20, "iso"), Date(2025, 13, 45, "iso")),
      AtLine(Date(2025, 10, 21, "iso"), Time(9, 0, "AM"), Time(9, 15, "AM")),
      AtLine(Date(2025, 13, 45, "iso"), Time(9, 0, ""), Time(9, 15, "")),
      TimeLine(NoDate, Time(11, 30, "PM"), Time(12, 0, "AM")),
      TimeLine(Date(2025, 10, 22, "iso"), Time(11, 30, ""), Time(12, 0, "")),
      TimeLine(Date(2025, 13, 45, "iso"), Time(11, 30, ""), Time(12, 0, "")),
      TimeLine(NoDate, Time(25, 99, ""), Time(13, 0, "PM")),
      DateLine(Date(2025, 10, 21, "iso")),
      NoteLine(<<>>),
      NoteLine(<<Plain, Zoom>>),
      NoteLine(<<Wiki, Meet>>),
      NoteLine(<<Plain>>) }

RECURSIVE SeqsUpTo(_, _)
SeqsUpTo(S, n) ==
    IF n = 0 THEN {<<>>}
    ELSE SeqsUpTo(S, n - 1)
            \cup {Append(q, x) : q \in {r \in SeqsUpTo(S, n - 1) : Len(r) = n - 1}, x \in S}

\* f"{n:02d}" and the four digits of a year
Pad2(n) == IF n < 10 THEN "0" \o ToString(n) ELSE ToString(n)
Pad4(n) ==
    IF n < 10 THEN "000" \o ToString(n)
    ELSE IF n < 100 THEN "00" \o ToString(n)
    ELSE IF n < 1000 THEN "0" \o ToString(n)
    ELSE ToString(n)

\* the text of an iso style date
DateText(t) == Pad4(t.y) \o "-" \o Pad2(t.m) \o "-" \o Pad2(t.d)

DaysInMonth(y, m) ==
    IF m \in {4, 6, 9, 11} THEN 30
    ELSE IF m = 2
    THEN IF (y % 4 = 0 /\ y % 100 # 0) \/ y % 400 = 0 THEN 29 ELSE 28
    ELSE 31

\* try_parse_date_to_iso on a date text: datetime.strptime takes it under the
\* format of its style if it names a day of the calendar; no other format and
\* not datetime.fromisoformat takes a text that one refused
try_parse_date_to_iso(t) ==
    IF t.style \in {"iso", "dmy"} /\ t.y >= 1 /\ t.m \in 1..12
          /\ t.d \in 1..DaysInMonth(t.y, t.m)
    THEN Pad4(t.y) \o "-" \o Pad2(t.m) \o "-" \o Pad2(t.d)
    ELSE None

\* parse_time_with_optional_am_pm: <<hour, minute>>, <<>> for (None, None).
\* "%I:%M %p" and "%I:%M%p" take a 12-hour time with AM or PM, "%H:%M" a
\* 24-hour time with nothing after it, and the fallback the leading digits of
\* whatever is left, unchecked
parse_time_with_optional_am_pm(t) ==
    IF t.suffix \in {"AM", "PM"} /\ t.hh \in 1..12 /\ t.mm <= 59
    THEN <<(t.hh % 12) + (IF t.suffix = "PM" THEN 12 ELSE 0), t.mm>>
    ELSE IF t.suffix = "" /\ t.hh <= 23 /\ t.mm <= 59 THEN <<t.hh, t.mm>>
    ELSE IF t # NoTime THEN <<t.hh, t.mm>>
    ELSE <<>>

to_iso_datetime_str(date_iso, hour, minute) ==
    IF date_iso = None THEN None
    ELSE date_iso \o "T" \o Pad2(hour) \o ":" \o Pad2(minute) \o ":00"

\* the matches of URL_RE in the lines, each after rstrip, in line order
RECURSIVE UrlsOf(_)
UrlsOf(buf) ==
    IF buf = <<>> THEN <<>>
    ELSE [i \in DOMAIN Head(buf).urls |-> Head(buf).urls[i].text] \o UrlsOf(Tail(buf))

RECURSIVE MarkersOf(_)
MarkersOf(buf) ==
    IF buf = <<>> THEN <<>>
    ELSE [i \in DOMAIN Head(buf).urls |-> Head(buf).urls[i].markers] \o MarkersOf(Tail(buf))

MEETING_DOMAINS_PRIORITY ==
    <<"zoom.us", "meet.google.com", "teams.microsoft.com", "webex.com", "gotomeeting.com",
      "gotowebinar.com", "jitsi", "whereby.com", "bluejeans.com">>

\* variant: the first URL whatever it contains
ExtractFirstUrl(buf) ==
    IF UrlsOf(buf) = <<>> THEN None ELSE UrlsOf(buf)[1]

extract_meeting_link_from_lines(buf) ==
    LET urls == UrlsOf(buf)
        has == MarkersOf(buf)
        Hit(d) == {k \in DOMAIN urls : MEETING_DOMAINS_PRIORITY[d] \in has[k]}
        found == {d \in DOMAIN MEETING_DOMAINS_PRIORITY : Hit(d) # {}}
    IN  IF urls = <<>> THEN None
        ELSE IF found # {}
        THEN LET d == CHOOSE x \in found : \A y \in found : x <= y
                 k == CHOOSE x \in Hit(d) : \A y \in Hit(d) : x <= y
             IN  urls[k]
        ELSE urls[1]

\* what the searches find in a line.  The bullet prefix is found in title
\* lines only.  TIME_RANGE_RE also finds the two times of an 'at' line, and
\* there without a date prefix, "at" standing between date and time.
BULLET_PREFIX(line) == line.form = "title"
DATE_RANGE_RE1(line) == line.form = "range1"
DATE_RANGE_RE2(line) == line.form = "range2"
TIME_RANGE_AT_RE(line) == line.form = "at"
TIME_RANGE_RE(line) == line.form \in {"time", "at"}
DatePrefix(line) == IF line.form = "time" THEN line.d1 ELSE NoDate
BareDate(line) == line.form = "date"

\* lines 250-266: the span a date range gives, <<>> if the branch is not taken
DateRangeSpan(line) ==
    LET s_iso == try_parse_date_to_iso(line.d1)
        e_iso == try_parse_date_to_iso(line.d2)
    IN  IF (DATE_RANGE_RE1(line) \/ DATE_RANGE_RE2(line)) /\ s_iso # None /\ e_iso # None
        THEN <<s_iso \o "T00:00:00", e_iso \o "T23:59:59">>
        ELSE <<>>

\* lines 269-280
AtSpan(line) ==
    LET date_iso == try_parse_date_to_iso(line.d1)
        hm1 == parse_time_with_optional_am_pm(line.t1)
        hm2 == parse_time_with_optional_am_pm(line.t2)
    IN  IF TIME_RANGE_AT_RE(line) /\ date_iso # None /\ hm1 # <<>> /\ hm2 # <<>>
        THEN <<to_iso_datetime_str(date_iso, hm1[1], hm1[2]),
               to_iso_datetime_str(date_iso, hm2[1], hm2[2])>>
        ELSE <<>>

\* variant: a time range without a date prefix is not taken
TimeRangeSpanNeedsPrefix(line) ==
    LET date_iso == try_parse_date_to_iso(DatePrefix(line))
        hm1 == parse_time_with_optional_am_pm(line.t1)
        hm2 == parse_time_with_optional_am_pm(line.t2)
    IN  IF TIME_RANGE_RE(line) /\ DatePrefix(line) # NoDate /\ hm1 # <<>> /\ hm2 # <<>>
        THEN <<to_iso_datetime_str(date_iso, hm1[1], hm1[2]),
               to_iso_datetime_str(date_iso, hm2[1], hm2[2])>>
        ELSE <<>>

\* variant: the end is always put on the day of the run
TimeRangeSpanEndOnRunDate(line) ==
    LET date_iso == IF DatePrefix(line) # NoDate THEN try_parse_date_to_iso(DatePrefix(line))
                    ELSE Today
        hm1 == parse_time_with_optional_am_pm(line.t1)
        hm2 == parse_time_with_optional_am_pm(line.t2)
    IN  IF TIME_RANGE_RE(line) /\ hm1 # <<>> /\ hm2 # <<>>
        THEN <<to_iso_datetime_str(date_iso, hm1[1], hm1[2]),
               to_iso_datetime_str(Today, hm2[1], hm2[2])>>
        ELSE <<>>

\* lines 283-297
TimeRangeSpan(line) ==
    LET date_iso == IF DatePrefix(line) # NoDate THEN try_parse_date_to_iso(DatePrefix(line))
                    ELSE Today
        hm1 == parse_time_with_optional_am_pm(line.t1)
        hm2 == parse_time_with_optional_am_pm(line.t2)
    IN  IF TIME_RANGE_RE(line) /\ hm1 # <<>> /\ hm2 # <<>>
        THEN <<to_iso_datetime_str(date_iso, hm1[1], hm1[2]),
               to_iso_datetime_str(date_iso, hm2[1], hm2[2])>>
        ELSE <<>>

\* lines 299-303
BareDateSpan(line) ==
    IF BareDate(line)
    THEN <<DateText(line.d1) \o "T00:00:00", DateText(line.d1) \o "T23:59:59">>
    ELSE <<>>

\* the locals cur_start and cur_end after the line, lines 250-305
SpanAfter(line, start, end) ==
    IF DateRangeSpan(line) # <<>> THEN DateRangeSpan(line)
    ELSE IF AtSpan(line) # <<>> THEN AtSpan(line)
    ELSE IF TimeRangeSpan(line) # <<>> THEN TimeRangeSpan(line)
    ELSE IF BareDateSpan(line) # <<>> THEN BareDateSpan(line)
    ELSE <<start, end>>

\* variant: a block without a time span is dropped
CommittedDropsUntimed(evs, title, start, end, buf) ==
    IF title # None /\ start # None
    THEN Append(evs, <<title, start, end, extract_meeting_link_from_lines(buf)>>)
    ELSE evs

\* commit(): the list events after it
Committed(evs, title, start, end, buf) ==
    IF title # None
    THEN Append(evs, <<title, start, end, extract_meeting_link_from_lines(buf)>>)
    ELSE evs

ParseInit ==
    /\ SyncIdle /\ UidIdle /\ ViewIdle
    /\ lines \in SeqsUpTo(LineSet, MaxLines)
    /\ pos = 1
    /\ cur_title = None /\ cur_start = None /\ cur_end = None
    /\ buffer_lines = <<>>
    /\ parsed = <<>>

\* one turn of the for loop, lines 226-307
ReadLine ==
    /\ pos \in DOMAIN lines
    /\ pos' = pos + 1
    /\ LET line == lines[pos]
       IN  IF line.form = "blank"
           THEN UNCHANGED <<cur_title, cur_start, cur_end, buffer_lines, parsed>>
           ELSE IF BULLET_PREFIX(line)
           THEN /\ parsed' = Committed(parsed, cur_title, cur_start, cur_end, buffer_lines)
                /\ cur_title' = line.title
                /\ cur_start' = None
                /\ cur_end' = None
                /\ buffer_lines' = <<>>
           ELSE IF cur_title # None
           THEN /\ buffer_lines' = Append(buffer_lines, line)
                /\ cur_start' = SpanAfter(line, cur_start, cur_end)[1]
                /\ cur_end' = SpanAfter(line, cur_start, cur_end)[2]
                /\ UNCHANGED <<cur_title, parsed>>
           ELSE UNCHANGED <<cur_title, cur_start, cur_end, buffer_lines, parsed>>
    /\ UNCHANGED <<syncVars, uidVars, viewVars, lines>>

\* lines 307-309: the last block, and the return
Return ==
    /\ pos = Len(lines) + 1
    /\ pos' = pos + 1
    /\ parsed' = Committed(parsed, cur_title, cur_start, cur_end, buffer_lines)
    /\ IF cur_title # None
       THEN /\ cur_title' = None /\ cur_start' = None /\ cur_end' = None
            /\ buffer_lines' = <<>>
       ELSE UNCHANGED <<cur_title, cur_start, cur_end, buffer_lines>>
    /\ UNCHANGED <<syncVars, uidVars, viewVars, lines>>

ParseNext == ReadLine \/ Return

ParseSpec == ParseInit /\ [][ParseNext]_vars

\* ---------------------------------------------------------------- properties
IsPrefix(p, q) == Len(p) <= Len(q) /\ SubSeq(q, 1, Len(p)) = p

\* a run of process_and_sync has just ended
Ran == pc = "ran" /\ outcome \in {"committed", "dry", "failed"}

\* both tables when that run started
Pre == trace[1]

\* the candidate steps that run completed
Steps == 1..(IF Len(trace) - 1 < Len(call.ev_list) THEN Len(trace) - 1
             ELSE Len(call.ev_list))

CandUid(i) == uid_for(call.ev_list[i][1], call.ev_list[i][2], call.ev_list[i][3])

\* the change rows a step or a run appended
Appended(before, after) == {after[k] : k \in (Len(before) + 1)..Len(after)}

\* a change row without its timestamp
Entry(r) == <<r.action, r.uid, r.title, r.start_time, r.end_time, r.meeting_link>>

\* the run is a committed full pass that replays the list of the committed
\* full pass right before it
Replay == Ran /\ outcome = "committed" /\ ~call.lookback_mode /\ call.ev_list \in prev

\* C1: replaying a candidate list in a second full pass leaves the set of
\* active events as the first pass left it and appends no change row
C1_IdempotentReplay ==
    Replay => /\ ActiveUids(events) = ActiveUids(Pre.events)
              /\ changes = Pre.changes

\* C2: the deleted flag of a stored event never goes from 1 back to 0
C2_RetiredStaysRetired ==
    [][\A k \in DOMAIN events :
          events[k].deleted = 1 => events[k].uid \notin ActiveUids(events')]_vars

\* titles of the candidates whose identity the snapshot does not hold
NewTitles == {call.ev_list[i][1] :
                 i \in {j \in DOMAIN call.ev_list : CandUid(j) \notin Uids(Pre.events)}}

\* C3: a lookback pass writes no "removed" row and keeps every active event
\* whose title is not that of a new-identity candidate active
C3_LookbackNeverRemoves ==
    (Ran /\ call.lookback_mode) =>
        /\ \A i \in DOMAIN trace :
              \A r \in Appended(Pre.changes, trace[i].changes) : r.action # "removed"
        /\ \A r \in Appended(Pre.changes, changes) : r.action # "removed"
        /\ \A u \in ActiveUids(Pre.events) :
              RowOf(Pre.events, u).title \notin NewTitles => u \in ActiveUids(events)

C3_Witness ==
    /\ Ran /\ call.lookback_mode /\ outcome = "committed"
    /\ changes # Pre.changes
    /\ \E u \in ActiveUids(Pre.events) :
          u \notin CurrentUids(call.ev_list) /\ u \in ActiveUids(events)

\* C4: a committed full pass retires every event that was active when it
\* started and is not among the candidates, and appends a "removed" row with
\* the stored title, start, end and link of each
C4_FullPassRetiresAbsent ==
    (Ran /\ outcome = "committed" /\ ~call.lookback_mode) =>
        \A u \in ActiveUids(Pre.events) \ CurrentUids(call.ev_list) :
            LET row == RowOf(Pre.events, u)
            IN  /\ u \in Uids(events)
                /\ RowOf(events, u).deleted = 1
                /\ \E r \in Appended(Pre.changes, changes) :
                      Entry(r) = <<"removed", u, row.title, row.start_time, row.end_time,
                                   row.meeting_link>>

C4_Witness ==
    /\ Ran /\ outcome = "committed" /\ ~call.lookback_mode
    /\ \E u \in ActiveUids(Pre.events) \ CurrentUids(call.ev_list) :
          RowOf(Pre.events, u).meeting_link # None
    /\ call.ev_list # <<>>

\* rows of the snapshot that are active and carry the title of candidate i
SameTitleActive(i) ==
    {Pre.events[k] : k \in {j \in DOMAIN Pre.events :
                               /\ Pre.events[j].title = call.ev_list[i][1]
                               /\ Pre.events[j].deleted = 0}}

\* the row a candidate's insert leaves
InsertedActive(tbl, i) ==
    /\ CandUid(i) \in Uids(tbl)
    /\ LET row == RowOf(tbl, CandUid(i))
       IN  /\ row.deleted = 0
           /\ <<row.title, row.start_time, row.end_time, row.meeting_link>> = call.ev_list[i]

C6_RefreshOnly ==
    (Ran /\ ~call.dry_run) =>
        \A i \in Steps :
            CandUid(i) \in ActiveUids(Pre.events) =>
                LET old == RowOf(trace[i].events, CandUid(i))
                    row == RowOf(trace[i + 1].events, CandUid(i))
                IN  /\ trace[i + 1].changes = trace[i].changes
                    /\ row.last_seen = call.now
                    /\ row.meeting_link = call.ev_list[i][4]
                    /\ <<row.title, row.start_time, row.end_time, row.first_seen>>
                          = <<old.title, old.start_time, old.end_time, old.first_seen>>

\* a stored link is overwritten by NULL
C6_Witness ==
    /\ Ran /\ outcome = "committed"
    /\ \E i \in Steps :
          /\ CandUid(i) \in ActiveUids(Pre.events)
          /\ RowOf(trace[i].events, CandUid(i)).meeting_link # None
          /\ call.ev_list[i][4] = None
          /\ RowOf(trace[i].events, CandUid(i)).first_seen < call.now

\* C7: a dry run issues no write and leaves both tables as they were
C7_DryRunWritesNothing ==
    (Ran /\ call.dry_run) =>
        /\ \A i \in DOMAIN trace : trace[i] = Pre
        /\ Store(events, changes) = Pre

\* a dry run whose branches would add, supersede and remove
C7_Witness ==
    /\ Ran /\ call.dry_run /\ ~call.lookback_mode
    /\ \E i \in DOMAIN call.ev_list :
          CandUid(i) \notin Uids(Pre.events) /\ SameTitleActive(i) # {}
    /\ ActiveUids(Pre.events) \ CurrentUids(call.ev_list) # {}

\* C8: a run whose write fails leaves both tables as they were before it,
\* and a run that commits makes all its writes visible at once
C8_AllOrNothing ==
    /\ (Ran /\ outcome = "failed") => Store(events, changes) = Pre
    /\ (Ran /\ outcome = "committed") => Store(events, changes) = trace[Len(trace)]

\* the failing run had written events and change rows before it failed
C8_Witness ==
    /\ Ran /\ outcome = "failed"
    /\ trace[Len(trace)].events # Pre.events
    /\ Len(trace[Len(trace)].changes) > Len(Pre.changes) + 1

\* C9: every step keeps every change row as it is and only appends rows
C9_AppendOnly == [][IsPrefix(changes, changes')]_vars

\* a run has appended several rows to a log that already had rows
C9_Witness ==
    Ran /\ outcome = "committed" /\ Pre.changes # <<>>
        /\ Len(changes) > Len(Pre.changes) + 1

\* first_seen of every row of tbl that next still holds
KeepsFirstSeen(tbl, next) ==
    \A k \in DOMAIN tbl :
        tbl[k].uid \in Uids(next) => RowOf(next, tbl[k].uid).first_seen = tbl[k].first_seen

\* C10: first_seen of a stored event never changes, neither from one
\* committed state to the next nor from one step of a run to the next
C10_FirstSeenImmutable ==
    [][/\ KeepsFirstSeen(events, events')
       /\ \A i \in 1..(Len(trace') - 1) :
             KeepsFirstSeen(trace'[i].events, trace'[i + 1].events)]_vars

\* a run that refreshes, re-inserts a repeated new identity, supersedes and
\* sweeps rows created by earlier runs
C10_Witness ==
    /\ Ran /\ outcome = "committed" /\ ~call.lookback_mode
    /\ Len(call.ev_list) = 2 /\ CandUid(1) = CandUid(2)
    /\ CandUid(1) \notin Uids(Pre.events)
    /\ SameTitleActive(1) # {}
    /\ \E k \in DOMAIN events : events[k].first_seen < events[k].last_seen

\* C11: no step removes a row of events: the stored identities only grow, and
\* an event that leaves the active set is still stored, with deleted = 1
C11_NeverHardDeleted ==
    [][/\ Uids(events) \subseteq Uids(events')
       /\ \A u \in ActiveUids(events) \ ActiveUids(events') :
             u \in Uids(events') /\ RowOf(events', u).deleted = 1
       /\ \A i \in 1..(Len(trace') - 1) :
             Uids(trace'[i].events) \subseteq Uids(trace'[i + 1].events)]_vars

\* a committed run has retired one event by supersession and one by absence
C11_Witness ==
    /\ Ran /\ outcome = "committed"
    /\ \E u, v \in ActiveUids(Pre.events) \ ActiveUids(events) :
          /\ u # v
          /\ u \in Uids(events) /\ v \in Uids(events)
          /\ RowOf(Pre.events, u).title \in NewTitles
          /\ RowOf(Pre.events, v).title \notin NewTitles
    /\ Cardinality(Uids(events)) > Cardinality(Uids(Pre.events))

\* the listing failed: a subprocess call timed out or could not be started, or
\* the range call was unusable and the eventsToday call returned nonzero
ListingFailed(f) ==
    \/ f[1] \in {"timeout", "notfound"}
    \/ f[1] = "unusable" /\ f[2] \in {"rc_nonzero", "timeout", "notfound"}

\* C12: a run whose listing failed or timed out never reaches parse_events or
\* process_and_sync, ends as a failure and leaves both tables as they were
C12_SourceUnavailableAborts ==
    [][ListingFailed(fetch') =>
          /\ outcome' \in {"aborted", "crashed"}
          /\ call' = NoCall /\ trace' = <<>>
          /\ events' = events /\ changes' = changes]_vars

\* a run over a store with events has ended on a failed eventsToday call
C12_Witness ==
    /\ pc = "ran" /\ outcome = "aborted"
    /\ fetch = <<"unusable", "rc_nonzero">>
    /\ ActiveUids(events) # {} /\ changes # <<>>

\* C17: two different (title, start, end) triples never give the same joined
\* string
C17_JoinInjective ==
    (joined # <<>> /\ key[1] # key[2]) => joined[1] # joined[2]

\* the day in a stored timestamp
DayOf(t) == t.day

\* the stored event is active and lies in the window the query names
InWindow(r, q) ==
    /\ r.deleted = 0
    /\ IF q[1] = "date"
       THEN /\ r.start_time # NoStamp /\ DayOf(r.start_time) <= q[2]
            /\ r.end_time # NoStamp /\ DayOf(r.end_time) >= q[2]
       ELSE /\ q[3] = NoDay \/ (r.start_time # NoStamp /\ DayOf(r.start_time) <= q[3])
            /\ q[2] = NoDay \/ (r.end_time # NoStamp /\ DayOf(r.end_time) >= q[2])

\* C18: events_on_date(d) returns exactly the active events with start date
\* <= d <= end date, events_in_range(from, to) exactly the active events that
\* overlap the interval (an absent bound is unbounded), both ordered by start,
\* and no retired event
C18_ViewExact ==
    query # <<>> =>
        /\ {answer[i] : i \in DOMAIN answer}
              = {Selected(stored[k]) : k \in {j \in DOMAIN stored : InWindow(stored[j], query)}}
        /\ Len(answer) = Cardinality({j \in DOMAIN stored : InWindow(stored[j], query)})
        /\ \A i, j \in DOMAIN answer : i < j => TextLe(answer[i][2], answer[j][2])

\* the lines parse_events has read so far
ReadSoFar == 1..(IF pos > Len(lines) THEN Len(lines) ELSE pos - 1)

\* the title lines among them, and the i-th of those
TitlesRead == {k \in ReadSoFar : lines[k].form = "title"}
NthTitle(i) == CHOOSE k \in TitlesRead : Cardinality({j \in TitlesRead : j <= k}) = i

\* the block of the title line at k: the non-blank lines after it up to the
\* next title line or the end of the input
BlockOf(k) ==
    {j \in (k + 1)..Len(lines) :
        /\ lines[j].form # "blank"
        /\ \A m \in (k + 1)..j : lines[m].form # "title"}

parse_events_returned == pos = Len(lines) + 2

\* C13: parse_events emits one candidate per title line, in input order, a
\* block being emitted when the next title line or the end of the input is
\* reached; a block without any date or time line is emitted with start and
\* end null; lines before the first title line give no candidate and are not
\* buffered
C13_OneCandidatePerTitle ==
    pos > 0 =>
        /\ Len(parsed) + (IF cur_title # None THEN 1 ELSE 0) = Cardinality(TitlesRead)
        /\ \A i \in 1..Len(parsed) :
              /\ parsed[i][1] = lines[NthTitle(i)].title
              /\ (\A j \in BlockOf(NthTitle(i)) : lines[j].form = "note")
                    => parsed[i][2] = None /\ parsed[i][3] = None
        /\ cur_title # None => cur_title = lines[NthTitle(Len(parsed) + 1)].title
        /\ cur_title = None => buffer_lines = <<>>
        /\ parse_events_returned => Len(parsed) = Cardinality(TitlesRead)

\* parse_events has returned two candidates from a note, a title line with no
\* dated line after it and another title line
C13_Witness ==
    /\ parse_events_returned
    /\ Len(lines) = 3
    /\ lines[1].form = "note" /\ lines[1].urls # <<>>
    /\ lines[2].form = "title" /\ lines[3].form = "title"
    /\ Len(parsed) = 2
    /\ parsed[1] = <<lines[2].title, None, None, None>>

\* this step reads a non-title line inside a block
ReadsBlockLine ==
    /\ pos \in DOMAIN lines /\ pos' = pos + 1
    /\ lines[pos].form \notin {"blank", "title"}
    /\ cur_title # None

\* the times of the line parse
TimesParse(line) ==
    /\ parse_time_with_optional_am_pm(line.t1) # <<>>
    /\ parse_time_with_optional_am_pm(line.t2) # <<>>

StartEnd(date_iso, line) ==
    <<to_iso_datetime_str(date_iso, parse_time_with_optional_am_pm(line.t1)[1],
                          parse_time_with_optional_am_pm(line.t1)[2]),
      to_iso_datetime_str(date_iso, parse_time_with_optional_am_pm(line.t2)[1],
                          parse_time_with_optional_am_pm(line.t2)[2])>>

\* the valid span of the first pattern, in the order date range, 'at' time
\* range, generic time range, bare date, that matches the line and whose
\* matched dates and times parse; <<>> if there is none
ValidSpan(line) ==
    IF /\ line.form \in {"range1", "range2"}
       /\ try_parse_date_to_iso(line.d1) # None /\ try_parse_date_to_iso(line.d2) # None
    THEN <<try_parse_date_to_iso(line.d1) \o "T00:00:00",
           try_parse_date_to_iso(line.d2) \o "T23:59:59">>
    ELSE IF line.form = "at" /\ try_parse_date_to_iso(line.d1) # None /\ TimesParse(line)
    THEN StartEnd(try_parse_date_to_iso(line.d1), line)
    ELSE IF line.form = "at" /\ TimesParse(line)
    THEN StartEnd(Today, line)
    ELSE IF line.form = "time" /\ line.d1 = NoDate /\ TimesParse(line)
    THEN StartEnd(Today, line)
    ELSE IF line.form = "time" /\ try_parse_date_to_iso(line.d1) # None /\ TimesParse(line)
    THEN StartEnd(try_parse_date_to_iso(line.d1), line)
    ELSE IF line.form = "date" /\ try_parse_date_to_iso(line.d1) # None
    THEN <<try_parse_date_to_iso(line.d1) \o "T00:00:00",
           try_parse_date_to_iso(line.d1) \o "T23:59:59">>
    ELSE <<>>

\* C14: a non-title line inside a block is buffered; the first pattern that
\* yields a valid span sets start and end, and a line that yields none (no
\* pattern matches, or a matched date or time does not parse) leaves start
\* and end as they were
C14_LineSetsOrKeepsSpan ==
    [][ReadsBlockLine =>
          /\ buffer_lines' = Append(buffer_lines, lines[pos])
          /\ <<cur_start', cur_end'>> =
                IF ValidSpan(lines[pos]) # <<>> THEN ValidSpan(lines[pos])
                ELSE <<cur_start, cur_end>>]_vars

\* C15: a generic time-range line without a date prefix sets start and end
\* to its times on the day of the run, whatever span the block had before
C15_NoPrefixMeansToday ==
    [][(ReadsBlockLine /\ lines[pos].form = "time" /\ lines[pos].d1 = NoDate) =>
          /\ cur_start' = Today \o "T" \o Pad2(parse_time_with_optional_am_pm(lines[pos].t1)[1])
                              \o ":" \o Pad2(parse_time_with_optional_am_pm(lines[pos].t1)[2])
                              \o ":00"
          /\ cur_end' = Today \o "T" \o Pad2(parse_time_with_optional_am_pm(lines[pos].t2)[1])
                            \o ":" \o Pad2(parse_time_with_optional_am_pm(lines[pos].t2)[2])
                            \o ":00"]_vars

\* a bare date of another day set the span, then a time range without a date
\* prefix replaced it by one on the day of the run
C15_Witness ==
    /\ pos = 4 /\ cur_title # None
    /\ lines[2] = DateLine(Date(2025, 10, 21, "iso"))
    /\ lines[3] = TimeLine(NoDate, Time(11, 30, "PM"), Time(12, 0, "AM"))
    /\ cur_start = "2025-10-23T23:30:00" /\ cur_end = "2025-10-23T00:00:00"

\* the URLs of the block of the title line at k, in line order
RECURSIVE BlockUrls(_, _)
BlockUrls(k, j) ==
    IF j > Len(lines) \/ lines[j].form = "title" THEN <<>>
    ELSE lines[j].urls \o BlockUrls(k, j + 1)

\* the place of a provider marker in the priority list
Rank(marker) == CHOOSE d \in DOMAIN MEETING_DOMAINS_PRIORITY : MEETING_DOMAINS_PRIORITY[d] = marker

\* C16: the link of a candidate is None exactly when its block holds no URL;
\* when some URL holds a provider marker it is the first URL, in line order,
\* that holds the best ranked marker any URL of the block holds; otherwise it
\* is the first URL of the block
C16_LinkByPriority ==
    \A i \in 1..Len(parsed) :
        LET urls == BlockUrls(NthTitle(i), NthTitle(i) + 1)
            link == parsed[i][4]
            held == UNION {urls[k].markers : k \in DOMAIN urls}
        IN  /\ link = None <=> urls = <<>>
            /\ (urls # <<>> /\ held = {}) => link = urls[1].text
            /\ held # {} =>
                  \E best \in held :
                      /\ \A m \in held : Rank(best) <= Rank(m)
                      /\ \E k \in DOMAIN urls :
                            /\ best \in urls[k].markers
                            /\ link = urls[k].text
                            /\ \A j \in 1..(k - 1) : best \notin urls[j].markers

\* a candidate got the zoom.us link that stands last among four URLs of two
\* lines, after a URL without a marker and URLs of lower ranked providers
C16_Witness ==
    /\ parse_events_returned
    /\ Len(parsed) = 1
    /\ BlockUrls(NthTitle(1), NthTitle(1) + 1) = <<Wiki, Meet, Plain, Zoom>>
    /\ parsed[1][4] = Zoom.text

\* the positions of the change rows the run appended
NewRows == (Len(Pre.changes) + 1)..Len(changes)

\* C19: when a committed pass gets the same (title, start, end) more than once
\* and that identity is not stored yet, the pass stores one event for it and
\* appends exactly one "added" or "added (updated)" row for it
C19_DuplicateAddedOnce ==
    (Ran /\ outcome = "committed") =>
        \A i, j \in DOMAIN call.ev_list :
            (i < j /\ CandUid(i) = CandUid(j) /\ CandUid(i) \notin Uids(Pre.events)) =>
                /\ Cardinality({k \in DOMAIN events : events[k].uid = CandUid(i)}) = 1
                /\ Cardinality({k \in NewRows :
                                  /\ changes[k].uid = CandUid(i)
                                  /\ changes[k].action \in {"added", "added (updated)"}}) = 1

\* C20: in one committed pass every event that goes from active to retired
\* gets exactly one change row
C20_OneRecordPerRetirement ==
    (Ran /\ outcome = "committed") =>
        \A u \in ActiveUids(Pre.events) \ ActiveUids(events) :
            Cardinality({k \in NewRows : changes[k].uid = u}) = 1

\* C21: after a committed pass every event whose identity is among the
\* candidates of the pass is active
C21_CandidatesActive ==
    (Ran /\ outcome = "committed") =>
        \A i \in DOMAIN call.ev_list : CandUid(i) \in ActiveUids(events)

\* the candidate list in the opposite order
Reversed(C) == [i \in DOMAIN C |-> C[Len(C) + 1 - i]]

\* the identities stored as retired
RetiredUids(tbl) == Uids(tbl) \ ActiveUids(tbl)

\* C22: a committed pass over the same snapshot with the candidates in the
\* opposite order leaves the same active set and the same retired set
C22_OrderIndependent ==
    (Ran /\ outcome = "committed") =>
        LET other == FullTrace(Pre, Reversed(call.ev_list), call.now, FALSE,
                               call.lookback_mode)
            last == other[Len(other)].events
        IN  /\ ActiveUids(last) = ActiveUids(events)
            /\ RetiredUids(last) = RetiredUids(events)

\* the last change row with the identity
LastChange(uid) ==
    changes[CHOOSE k \in DOMAIN changes :
                /\ changes[k].uid = uid
                /\ \A j \in DOMAIN changes : changes[j].uid = uid => j <= k]

\* C23: a stored event is active exactly when the last change row with its
\* identity is "added" or "added (updated)", and retired exactly when it is
\* "updated-old-marked-deleted" or "removed"
C23_LogAccountsForActiveSet ==
    \A u \in Uids(events) :
        /\ \E k \in DOMAIN changes : changes[k].uid = u
        /\ u \in ActiveUids(events)
              <=> LastChange(u).action \in {"added", "added (updated)"}
        /\ u \in RetiredUids(events)
              <=> LastChange(u).action \in {"updated-old-marked-deleted", "removed"}

\* the hour and minute parse_time_with_optional_am_pm gives for a time text
\* are values of the 24-hour clock
ClockValue(t) ==
    LET hm == parse_time_with_optional_am_pm(t)
    IN  hm # <<>> /\ hm[1] \in 0..23 /\ hm[2] \in 0..59

\* C24: a line with a time range writes only hours in 0..23 and minutes in
\* 0..59 into start and end; a time text outside these ranges produces no
\* span, start and end stay as they were
C24_ClockValuesOnly ==
    [][(ReadsBlockLine /\ lines[pos].form \in {"at", "time"}) =>
          \/ ClockValue(lines[pos].t1) /\ ClockValue(lines[pos].t2)
          \/ <<cur_start', cur_end'>> = <<cur_start, cur_end>>]_vars

\* C25: in the block state after every line and in every emitted candidate,
\* start is null exactly when end is null
C25_BoundsTogether ==
    /\ cur_start = None <=> cur_end = None
    /\ \A i \in 1..Len(parsed) : parsed[i][2] = None <=> parsed[i][3] = None

\* a block had its span set by a bare date and then cleared, both bounds at
\* once, by a time range whose date prefix names no day; the candidate was
\* emitted with both bounds null
C25_Witness ==
    /\ parse_events_returned
    /\ Len(lines) = 3
    /\ lines[2] = DateLine(Date(2025, 10, 21, "iso"))
    /\ lines[3] = TimeLine(Date(2025, 13, 45, "iso"), Time(11, 30, ""), Time(12, 0, ""))
    /\ parsed = <<<<lines[1].title, None, None, None>>>>

====
